---- MODULE Spec2Model ----
(***************************************************************************)
(* Notes REST service: the Note Service (create / list / get / update /    *)
(* delete) on top of the whole-file Storage Accessor (readNotes,           *)
(* writeNotes, ensureDataFile).                                            *)
(*                                                                         *)
(* Every request is an async function: each `await` of a file operation is *)
(* a point where other requests run.  A request is therefore a small       *)
(* process whose program counter names the file operation it is waiting    *)
(* for.  fs.access, fs.readFile and fs.writeFile are taken to be atomic at *)
(* the moment they complete.                                               *)
(*                                                                         *)
(* Timestamps: toISOString() of a Date yields a fixed-width string whose   *)
(* lexicographic order is the order of the underlying millisecond values,  *)
(* so a timestamp is kept as its millisecond value.                        *)
(*                                                                         *)
(* Strings are sequences of one-character strings, so that trim,           *)
(* toLowerCase and includes can be computed: "Abc" is <<"A", "b", "c">>.   *)
(***************************************************************************)
EXTENDS Integers, Sequences, FiniteSets, TLC

(* ------------------------------ bounds -------------------------------- *)

\* number of request slots: requests that can be in flight at the same time
MaxReqs == 2

\* number of createNote calls in one behaviour (ids drawn from uuidv4)
MaxNotes == 2

\* number of requests issued in one behaviour
MaxOps == 3

\* the wall clock runs from 0 to MaxClock abstract milliseconds
MaxClock == 1

\* number of notes in a collection that GET /notes is tried on
MaxListNotes == 3

\* number of requests handled one after the other in one behaviour
MaxCalls == 2

\* how far beyond a limit of the validators the tried lengths and numbers go
MaxBeyond == 2

Slots == 1..MaxReqs

Ids == 1..MaxNotes

(* ------------------------- JavaScript objects ------------------------- *)

\* an object is a function from its keys; {} is the object without keys
EmptyObj == [k \in {} |-> 0]

\* { ...a, ...b }
Spread(a, b) ==
    [k \in (DOMAIN a) \cup (DOMAIN b) |-> IF k \in DOMAIN b THEN b[k] ELSE a[k]]

\* ...(dto.key !== undefined && { key: dto.key })
SpreadIfDefined(a, dto, key) ==
    IF key \in DOMAIN dto THEN Spread(a, [k \in {key} |-> dto[key]]) ELSE a

\* stands for "no note" in a response that carries an error
NoNote == [id |-> 0, title |-> <<>>, content |-> <<>>, createdAt |-> 0, updatedAt |-> 0]

(* ------------------------------ inputs -------------------------------- *)

\* fields a client may add to a request body although the API does not
\* define them: an id that another note may own and timestamps far away
\* from the server's clock
HostileFields == [id |-> 1, createdAt |-> 999999999, updatedAt |-> 0]

\* a string of n letters
Chars(n) == [i \in 1..n |-> "a"]

\* request bodies of POST /notes that pass validateCreateNote
CreateDtos ==
    { Spread([title |-> <<"A", "b", "c">>, content |-> <<"x", "y", "z">>], HostileFields) }

\* request bodies of PATCH /notes/:id that pass validateUpdateNote: a title
\* only, a content only, and both with the extra fields
UpdateDtos ==
    { [title |-> <<"X", "y", "z">>],
      [content |-> <<"z">>],
      Spread([title |-> <<"X", "y", "z">>, content |-> <<"n", "e", "w">>], HostileFields) }

(* ------------------------------- state -------------------------------- *)

VARIABLES
    file,        \* the backing file: [exists, json, notes]; json tells
                 \* whether it holds an array, other JSON, or no JSON
    clock,       \* Date.now(), abstract milliseconds
    nextId,      \* number of ids drawn from uuidv4 so far, plus one
    boot,        \* the ensureDataFile() call made when the module loads
    issued,      \* number of requests received so far
    req,         \* the request slots: the requests in flight
    hist,        \* history: what the responses so far told the clients
    listed,      \* the last answer to GET /notes, with its query
    sent         \* the last answer to a request handled on its own

vars == <<file, clock, nextId, boot, issued, req, hist, listed, sent>>

\* a free slot.  op, pc, id, dto, note, loaded and notes are the request's
\* own variables; stale and missed are history kept for the properties:
\* whether the file was overwritten since the request loaded it, and the
\* mutations other requests saved since then
IdleReq ==
    [ op |-> "idle", pc |-> "idle", id |-> 0, dto |-> EmptyObj, note |-> NoNote,
      loaded |-> <<>>, notes |-> <<>>, stale |-> FALSE, missed |-> {} ]

(* --------------------------- pure functions --------------------------- *)

\* getUzbekistanTime: now + 5 hours, as ISO string (see the header)
GetUzbekistanTime(t) == t + (5 * 60 * 60 * 1000)

\* uuidv4(): the n-th draw; two draws never agree
UuidV4(n) == n

NoteIds(notes) == { notes[i].id : i \in 1..Len(notes) }

\* notes.findIndex(n => n.id === id), 1-based; 0 stands for -1
FindIndex(notes, id) ==
    IF \E i \in 1..Len(notes) : notes[i].id = id
    THEN CHOOSE i \in 1..Len(notes) :
            /\ notes[i].id = id
            /\ \A j \in 1..(i - 1) : notes[j].id # id
    ELSE 0

\* a splice that removes no element
Splice_Slice(notes, index) ==
    SubSeq(notes, 1, index - 1) \o SubSeq(notes, index, Len(notes))

\* notes.splice(index, 1)
Splice(notes, index) ==
    SubSeq(notes, 1, index - 1) \o SubSeq(notes, index + 1, Len(notes))

\* a createNote that spreads the request body over the fields it sets
NewNote_DtoLast(dto, now, id) ==
    Spread([ id |-> id, title |-> dto.title, content |-> dto.content,
             createdAt |-> now, updatedAt |-> now ], dto)

\* the note object createNote builds
NewNote(dto, now, id) ==
    [ id |-> id, title |-> dto.title, content |-> dto.content,
      createdAt |-> now, updatedAt |-> now ]

\* an updateNote that takes title and content from the patch alone: a field
\* the patch lacks is emptied
UpdatedNote_Replace(old, dto, now) ==
    Spread(old,
           [ title |-> IF "title" \in DOMAIN dto THEN dto.title ELSE <<>>,
             content |-> IF "content" \in DOMAIN dto THEN dto.content ELSE <<>>,
             updatedAt |-> now ])

\* an updateNote that stamps updatedAt with the clock less the offset
\* createNote adds
UpdatedNote_UtcStamp(old, dto, now) ==
    Spread(SpreadIfDefined(SpreadIfDefined(old, dto, "title"), dto, "content"),
           [updatedAt |-> now - 2 * (5 * 60 * 60 * 1000)])

\* an updateNote that spreads the whole patch over the stored note
UpdatedNote_SpreadDto(old, dto, now) ==
    Spread(Spread(old, dto), [updatedAt |-> now])

\* the note object updateNote builds
UpdatedNote(old, dto, now) ==
    Spread(SpreadIfDefined(SpreadIfDefined(old, dto, "title"), dto, "content"),
           [updatedAt |-> now])

\* what fs.readFile + JSON.parse give readNotes when the file holds an
\* array; a failure (no file, no JSON) is caught and answered with []
ReadNotes(f) == IF f.exists /\ f.json = "array" THEN f.notes ELSE <<>>

\* a writeNotes that appends to what the file holds
WriteNotes_Append(notes) ==
    [exists |-> TRUE, json |-> "array", notes |-> ReadNotes(file) \o notes]

\* the file after fs.writeFile(DATA_FILE, JSON.stringify(notes))
WriteNotes(notes) == [exists |-> TRUE, json |-> "array", notes |-> notes]

\* a controller that sends 200 with every service result
SuccessStatus_Ok(op) == 200

\* the HTTP status the controller sends with a service result
SuccessStatus(op) == IF op = "create" THEN 201 ELSE 200

\* getNoteById on a loaded collection, as the client sees it
GetNoteById(notes, id) ==
    IF FindIndex(notes, id) = 0
    THEN [status |-> 404, data |-> NoNote]
    ELSE [status |-> SuccessStatus("get"), data |-> notes[FindIndex(notes, id)]]

\* a create that does not push its note
Mutated_NoPush(op, loaded, id, note) ==
    CASE op = "create" -> loaded
      [] op = "update" -> [loaded EXCEPT ![FindIndex(loaded, id)] = note]
      [] op = "delete" -> Splice(loaded, FindIndex(loaded, id))

\* an update that pushes the merged note and leaves the old one in place
Mutated_UpdatePush(op, loaded, id, note) ==
    CASE op = "create" -> Append(loaded, note)
      [] op = "update" -> Append(loaded, note)
      [] op = "delete" -> Splice(loaded, FindIndex(loaded, id))

\* a create that puts its note first
Mutated_Unshift(op, loaded, id, note) ==
    CASE op = "create" -> <<note>> \o loaded
      [] op = "update" -> [loaded EXCEPT ![FindIndex(loaded, id)] = note]
      [] op = "delete" -> Splice(loaded, FindIndex(loaded, id))

\* an update that takes the old note out and puts the merged note last
Mutated_UpdateMoves(op, loaded, id, note) ==
    CASE op = "create" -> Append(loaded, note)
      [] op = "update" -> Append(Splice(loaded, FindIndex(loaded, id)), note)
      [] op = "delete" -> Splice(loaded, FindIndex(loaded, id))

\* a delete that writes back the collection as it loaded it
Mutated_DeleteKeeps(op, loaded, id, note) ==
    CASE op = "create" -> Append(loaded, note)
      [] op = "update" -> [loaded EXCEPT ![FindIndex(loaded, id)] = note]
      [] op = "delete" -> loaded

\* the collection a mutating request writes, from the one it loaded
\* (update, delete: the request has found its note)
Mutated(op, loaded, id, note) ==
    CASE op = "create" -> Append(loaded, note)
      [] op = "update" -> [loaded EXCEPT ![FindIndex(loaded, id)] = note]
      [] op = "delete" -> Splice(loaded, FindIndex(loaded, id))

(* ----------------------- getAllNotes: the query ----------------------- *)

\* a toLowerCase that changes nothing
ToLowerCase_Identity(str) == [i \in 1..Len(str) |-> str[i]]

\* String.prototype.toLowerCase, on the letters the model uses
LowerChar(c) ==
    CASE c = "A" -> "a"
      [] c = "B" -> "b"
      [] c = "M" -> "m"
      [] c = "X" -> "x"
      [] OTHER -> c

ToLowerCase(str) == [i \in 1..Len(str) |-> LowerChar(str[i])]

\* String.prototype.trim: leading and trailing white space removed
Trim(str) ==
    LET inked == { i \in 1..Len(str) : str[i] # " " }
    IN  IF inked = {} THEN <<>>
        ELSE SubSeq(str,
                    CHOOSE i \in inked : \A j \in 1..(i - 1) : str[j] = " ",
                    CHOOSE i \in inked : \A j \in (i + 1)..Len(str) : str[j] = " ")

\* String.prototype.includes: sub occurs in str as a substring
Includes(str, sub) ==
    \E k \in 0..(Len(str) - Len(sub)) : SubSeq(str, k + 1, k + Len(sub)) = sub

\* Array.prototype.filter with the search predicate of getAllNotes
RECURSIVE FilterNotes(_, _)
FilterNotes(notes, searchLower) ==
    IF notes = <<>> THEN <<>>
    ELSE LET note == Head(notes)
             rest == FilterNotes(Tail(notes), searchLower)
         IN  IF \/ Includes(ToLowerCase(note.title), searchLower)
                \/ Includes(ToLowerCase(note.content), searchLower)
             THEN <<note>> \o rest
             ELSE rest

\* if (search && search.trim()): search is given, not empty and not blank
SearchGiven(params) ==
    /\ "search" \in DOMAIN params
    /\ params.search # <<>>
    /\ Trim(params.search) # <<>>

\* the notes getAllNotes pages through
Searched(notes, params) ==
    IF SearchGiven(params) THEN FilterNotes(notes, ToLowerCase(params.search)) ELSE notes

\* a page count that rounds down
CeilDiv_Floor(total, limit) == total \div limit

\* an offset that counts pages from 0
Skip_FromZero(page, limit) == page * limit

\* Math.ceil(total / limit), limit >= 1
CeilDiv(total, limit) == (total + limit - 1) \div limit

\* skip = (page - 1) * limit
Skip(page, limit) == (page - 1) * limit

\* Array.prototype.slice(start, end) for 0 <= start <= end
Slice(arr, start, end) ==
    IF start >= Len(arr) THEN <<>>
    ELSE SubSeq(arr, start + 1, IF end > Len(arr) THEN Len(arr) ELSE end)

\* const { page = 1, limit = 10, search } = params
DefaultPage == 1

DefaultLimit == 10

\* getAllNotes on a loaded collection
GetAllNotes(notes, params) ==
    LET page == IF "page" \in DOMAIN params THEN params.page ELSE DefaultPage
        limit == IF "limit" \in DOMAIN params THEN params.limit ELSE DefaultLimit
        found == Searched(notes, params)
        total == Len(found)
        skip == Skip(page, limit)
    IN  [ data |-> Slice(found, skip, skip + limit),
          pagination |-> [ page |-> page, limit |-> limit, total |-> total,
                           totalPages |-> CeilDiv(total, limit) ] ]

\* the controller of GET /notes: the validated query becomes the params
\* (page: req.query.page ? Number(req.query.page) : undefined), the result
\* is sent with status 200
QueryParams(query) ==
    [ k \in { key \in DOMAIN query : key = "search" \/ query[key] # 0 } |-> query[k] ]

ListHandler(notes, query) ==
    [ status |-> SuccessStatus("list"), body |-> GetAllNotes(notes, QueryParams(query)) ]

(* ------------------------------ actions ------------------------------- *)

NoHist == [created |-> {}, kept |-> {}, deleted |-> {}, gone |-> {}, touched |-> {}]

\* no request was handled on its own yet
NotSent == [route |-> "none", status |-> 0]

NotListed == [status |-> 0, query |-> EmptyObj, body |-> GetAllNotes(<<>>, EmptyObj)]

\* the service is up: the ensureDataFile() call of the module load has
\* ended and the data file holds the empty collection
Init ==
    /\ file = [exists |-> TRUE, json |-> "array", notes |-> <<>>]
    /\ clock = 0
    /\ nextId = 1
    /\ boot = "done"
    /\ issued = 0
    /\ req = [r \in Slots |-> IdleReq]
    /\ hist = NoHist
    /\ listed = NotListed
    /\ sent = NotSent

\* the module has just been loaded: its ensureDataFile() call is under way,
\* on a data file that may be missing (first start) or not
InitFresh ==
    /\ file \in { [exists |-> FALSE, json |-> "array", notes |-> <<>>], [exists |-> TRUE, json |-> "array", notes |-> <<>>] }
    /\ clock = 0
    /\ nextId = 1
    /\ boot = "access"
    /\ issued = 0
    /\ req = [r \in Slots |-> IdleReq]
    /\ hist = NoHist
    /\ listed = NotListed
    /\ sent = NotSent

\* time passes
Tick ==
    /\ clock < MaxClock
    /\ clock' = clock + 1
    /\ UNCHANGED <<file, nextId, boot, issued, req, hist, listed, sent>>

\* the ensureDataFile() of the module load: fs.access fails, the file is
\* missing.  (An access that succeeds ends ensureDataFile without effect,
\* and a file that exists is never removed: no step is needed for it.)
BootAccess ==
    /\ boot = "access"
    /\ ~file.exists
    /\ boot' = "init"
    /\ UNCHANGED <<file, clock, nextId, issued, req, hist, listed, sent>>

\* a request that has loaded the collection and has not yet saved its own
Pending(s) == req[s].pc \in {"wAccess", "wInit", "wWrite"}

\* someone is about to write the empty collection because it found no file
InitPending ==
    \/ boot = "init"
    \/ \E s \in Slots : req[s].pc \in {"rInit", "wInit"}

\* history: the file is overwritten; `saved` are the mutations saved with it
Overwritten(saved) ==
    [s \in Slots |->
        IF Pending(s)
        THEN [req[s] EXCEPT !.stale = TRUE, !.missed = @ \cup saved]
        ELSE req[s]]

\* the ensureDataFile() of the module load: access failed, [] is written
BootInit ==
    /\ boot = "init"
    /\ boot' = "done"
    /\ file' = WriteNotes(<<>>)
    /\ req' = Overwritten({})
    /\ UNCHANGED <<clock, nextId, issued, hist, listed, sent>>

\* queries of GET /notes that pass validateQueryParams, for the requests
\* that run among the others
ListQueries == { EmptyObj, [page |-> 2, limit |-> 1] }

\* the ids a request names: those drawn so far and one more, which stands
\* for every id that no note has (yet)
KnownIds == { id \in Ids : id <= nextId }

\* a new request takes the first free slot
Free(r) ==
    /\ issued < MaxOps
    /\ req[r].op = "idle"
    /\ \A s \in Slots : s < r => req[s].op # "idle"

\* POST /notes: createNote builds the note and runs up to its first await
\* (inside readNotes)
StartCreate(r, dto) ==
    /\ Free(r)
    /\ nextId <= MaxNotes
    /\ req' = [req EXCEPT ![r] =
                 [IdleReq EXCEPT
                    !.op = "create", !.pc = "rAccess", !.id = UuidV4(nextId),
                    !.note = NewNote(dto, GetUzbekistanTime(clock), UuidV4(nextId))]]
    /\ nextId' = nextId + 1
    /\ issued' = issued + 1
    /\ UNCHANGED <<file, clock, boot, hist, listed, sent>>

\* PATCH /notes/:id: updateNote runs up to its first await
StartUpdate(r, id, dto) ==
    /\ Free(r)
    /\ req' = [req EXCEPT ![r] =
                 [IdleReq EXCEPT !.op = "update", !.pc = "rAccess", !.dto = dto, !.id = id]]
    /\ hist' = [hist EXCEPT !.touched = @ \cup {id}]
    /\ issued' = issued + 1
    /\ UNCHANGED <<file, clock, nextId, boot, listed, sent>>

\* DELETE /notes/:id: deleteNote runs up to its first await
StartDelete(r, id) ==
    /\ Free(r)
    /\ req' = [req EXCEPT ![r] =
                 [IdleReq EXCEPT !.op = "delete", !.pc = "rAccess", !.id = id]]
    /\ hist' = [hist EXCEPT !.touched = @ \cup {id}]
    /\ issued' = issued + 1
    /\ UNCHANGED <<file, clock, nextId, boot, listed, sent>>

\* GET /notes/:id: getNoteById runs up to its first await
StartGet(r, id) ==
    /\ Free(r)
    /\ req' = [req EXCEPT ![r] =
                 [IdleReq EXCEPT !.op = "get", !.pc = "rAccess", !.id = id]]
    /\ issued' = issued + 1
    /\ UNCHANGED <<file, clock, nextId, boot, hist, listed, sent>>

\* GET /notes: getAllNotes runs up to its first await
StartList(r, query) ==
    /\ Free(r)
    /\ req' = [req EXCEPT ![r] =
                 [IdleReq EXCEPT !.op = "list", !.pc = "rAccess", !.dto = query]]
    /\ issued' = issued + 1
    /\ UNCHANGED <<file, clock, nextId, boot, hist, listed, sent>>

\* ensureDataFile inside readNotes / writeNotes: fs.access fails, the file
\* is missing.  (When the file exists access succeeds, and nothing can
\* undo that: the step is taken together with the file operation after it.)
Access(r) ==
    /\ req[r].pc \in {"rAccess", "wAccess"}
    /\ ~file.exists
    /\ req' = [req EXCEPT ![r].pc = IF @ = "rAccess" THEN "rInit" ELSE "wInit"]
    /\ UNCHANGED <<file, clock, nextId, boot, issued, hist, listed, sent>>

\* request r is at fs.readFile: ensureDataFile has found or made the file
AtRead(r) ==
    \/ req[r].pc = "rRead"
    \/ req[r].pc = "rAccess" /\ file.exists

\* an AtWrite under a lock: the save waits until no other request that has
\* loaded the collection is still to save
AtWrite_Locked(r) ==
    /\ \/ req[r].pc = "wWrite"
       \/ req[r].pc = "wAccess" /\ file.exists
    /\ \A s \in Slots \ {r} : ~Pending(s)

\* request r is at the fs.writeFile of writeNotes
AtWrite(r) ==
    \/ req[r].pc = "wWrite"
    \/ req[r].pc = "wAccess" /\ file.exists

\* ensureDataFile inside readNotes / writeNotes: access failed, [] is written
InitFile(r) ==
    /\ req[r].pc \in {"rInit", "wInit"}
    /\ file' = WriteNotes(<<>>)
    /\ req' = [Overwritten({}) EXCEPT
                 ![r] = [req[r] EXCEPT !.pc = IF @ = "rInit" THEN "rRead" ELSE "wWrite"]]
    /\ UNCHANGED <<clock, nextId, boot, issued, hist, listed, sent>>

\* readNotes returns to getNoteById, which answers and ends
ReadGet(r) ==
    /\ AtRead(r)
    /\ req[r].op = "get"
    /\ req' = [req EXCEPT ![r] = IdleReq]
    /\ UNCHANGED <<file, clock, nextId, boot, issued, hist, listed, sent>>

\* readNotes returns to getAllNotes, which answers and ends
ReadList(r) ==
    /\ AtRead(r)
    /\ req[r].op = "list"
    /\ req' = [req EXCEPT ![r] = IdleReq]
    /\ listed' = [ query |-> req[r].dto ] @@ ListHandler(ReadNotes(file), req[r].dto)
    /\ UNCHANGED <<file, clock, nextId, boot, issued, hist, sent>>

\* readNotes returns to updateNote / deleteNote, which does not find the id:
\* AppError(404), nothing is written
ReadNotFound(r) ==
    /\ AtRead(r)
    /\ req[r].op \in {"update", "delete"}
    /\ FindIndex(ReadNotes(file), req[r].id) = 0
    /\ req' = [req EXCEPT ![r] = IdleReq]
    /\ UNCHANGED <<file, clock, nextId, boot, issued, hist, listed, sent>>

\* the note a mutating request works with once it has loaded the collection:
\* the new note, the merged note, the note to delete
NoteOf(q, loaded, now) ==
    CASE q.op = "create" -> q.note
      [] q.op = "update" -> UpdatedNote(loaded[FindIndex(loaded, q.id)], q.dto, now)
      [] q.op = "delete" -> loaded[FindIndex(loaded, q.id)]

\* readNotes returns to createNote / updateNote / deleteNote, which changes
\* the loaded array and runs up to its next await (inside writeNotes)
ReadMutate(r) ==
    /\ AtRead(r)
    /\ \/ req[r].op = "create"
       \/ /\ req[r].op \in {"update", "delete"}
          /\ FindIndex(ReadNotes(file), req[r].id) # 0
    /\ LET loaded == ReadNotes(file)
           note == NoteOf(req[r], loaded, GetUzbekistanTime(clock))
       IN  req' = [req EXCEPT ![r] =
                     [req[r] EXCEPT
                        !.pc = "wAccess", !.loaded = loaded, !.note = note,
                        !.notes = Mutated(req[r].op, loaded, req[r].id, note)]]
    /\ UNCHANGED <<file, clock, nextId, boot, issued, hist, listed, sent>>

\* history: no request that loaded the collection earlier, and no pending
\* initialisation, can still overwrite what request r saves now
Unraced(r) ==
    /\ ~InitPending
    /\ \A s \in Slots \ {r} : ~Pending(s)

\* history: the update and delete requests in flight, other than r, name id
Targeted(r, id) ==
    \E s \in Slots \ {r} : req[s].op \in {"update", "delete"} /\ req[s].id = id

\* history after request r has saved and answered.  created: the notes
\* createNote returned; kept: those of them whose save was Unraced;
\* deleted: the ids deleteNote reported deleted; gone: the notes deleteNote
\* returned when its save was Unraced; touched: the ids that an update or
\* delete named since the note was created
Answered(r) ==
    LET q == req[r]
    IN  CASE q.op = "create" ->
               [hist EXCEPT
                  !.created = @ \cup {q.note},
                  !.kept = IF Unraced(r) THEN @ \cup {q.note} ELSE @,
                  !.touched = IF Targeted(r, q.id) THEN @ \cup {q.id} ELSE @ \ {q.id}]
          [] q.op = "delete" ->
               [hist EXCEPT
                  !.deleted = @ \cup {q.id},
                  !.gone = IF Unraced(r) THEN @ \cup {q.note} ELSE @]
          [] OTHER -> hist

\* fs.writeFile of writeNotes completes; the service method returns its note
\* and the controller answers with SuccessStatus
Write(r) ==
    /\ AtWrite(r)
    /\ file' = WriteNotes(req[r].notes)
    /\ req' = [Overwritten({[op |-> req[r].op, id |-> req[r].id, note |-> req[r].note]})
                 EXCEPT ![r] = IdleReq]
    /\ hist' = Answered(r)
    /\ UNCHANGED <<clock, nextId, boot, issued, listed, sent>>

\* the steps of the requests on a data file that exists
Next ==
    \/ Tick
    \/ \E r \in Slots :
          \/ \E dto \in CreateDtos : StartCreate(r, dto)
          \/ \E id \in KnownIds, dto \in UpdateDtos : StartUpdate(r, id, dto)
          \/ \E id \in KnownIds : StartDelete(r, id)
          \/ \E id \in KnownIds : StartGet(r, id)
          \/ \E query \in ListQueries : StartList(r, query)
          \/ ReadGet(r)
          \/ ReadList(r)
          \/ ReadNotFound(r)
          \/ ReadMutate(r)
          \/ Write(r)

Spec == Init /\ [][Next]_vars

\* the same with the steps ensureDataFile takes when it finds no data file
NextFresh ==
    \/ Next
    \/ BootAccess
    \/ BootInit
    \/ \E r \in Slots :
          \/ Access(r)
          \/ InitFile(r)

SpecFresh == InitFresh /\ [][NextFresh]_vars

(* ------------------- GET /notes on a fixed collection ----------------- *)

\* the largest limit validateQueryParams lets through
MaxLimit == 100

\* titles and contents of the notes GET /notes is tried on
ListTitles == { <<"M", "e", "e", "t">>, <<"a", "b", "c">> }

ListContents == { <<>>, <<"B", "a", "m">> }

\* the collections of up to MaxListNotes notes with these titles and
\* contents, the i-th note with the i-th id
ListCollections ==
    UNION { { [i \in 1..n |->
                 [ id |-> UuidV4(i), title |-> t[i], content |-> c[i],
                   createdAt |-> GetUzbekistanTime(0),
                   updatedAt |-> GetUzbekistanTime(0) ]] :
              t \in [1..n -> ListTitles], c \in [1..n -> ListContents] } :
            n \in 0..MaxListNotes }

\* an object with the keys of `keys` whose value in `full` is not "absent"
Given(full) == [ k \in { key \in DOMAIN full : full[key] # <<"absent">> } |-> full[k] ]

\* queries that pass validateQueryParams: page >= 1 or absent, limit in
\* 1..MaxLimit or absent, search absent, empty, blank, matching or not
AllListQueries ==
    { Spread(Spread(Given([search |-> srch]),
                    IF page = 0 THEN EmptyObj ELSE [page |-> page]),
             IF limit = 0 THEN EmptyObj ELSE [limit |-> limit]) :
        srch \in { <<"absent">>, <<>>, <<" ">>, <<"m", "e">>, <<"A", "B">>, <<"b">> },
        page \in 0..(MaxListNotes + 1),
        limit \in { 0, 1, 2, MaxLimit } }

\* a collection is in place and no request is in flight
InitList ==
    /\ file \in { WriteNotes(notes) : notes \in ListCollections }
    /\ clock = 0
    /\ nextId = 1
    /\ boot = "done"
    /\ issued = 0
    /\ req = [r \in Slots |-> IdleReq]
    /\ hist = NoHist
    /\ listed = NotListed
    /\ sent = NotSent

\* GET /notes, from the request to its answer with no other request in
\* between: readNotes, getAllNotes, the controller's answer; one request
\* per behaviour
ListCall(query) ==
    /\ listed = NotListed
    /\ listed' = [ query |-> query ] @@ ListHandler(ReadNotes(file), query)
    /\ UNCHANGED <<file, clock, nextId, boot, issued, req, hist, sent>>

NextList == \E query \in AllListQueries : ListCall(query)

SpecList == InitList /\ [][NextList]_vars

(* ------------------- validation and error responses ------------------- *)

\* A request is [route, id, body, query]: route is one of "create", "list",
\* "get", "update", "delete"; id is the :id of the path, 0 standing for a
\* string that is no UUID; body and query are objects.

\* isUUID() on the :id parameter
IsUUID(id) == id >= 1

\* a key of the request body as the validation chains leave it: trimmed
\* (sanitizers write their result back to req.body)
Sanitized(body) ==
    [ k \in DOMAIN body |-> IF k \in {"title", "content"} THEN Trim(body[k]) ELSE body[k] ]

\* a body('title') chain whose isLength counts from 4
TitleErrors_FromFour(body, optional) ==
    IF optional /\ "title" \notin DOMAIN body THEN <<>>
    ELSE LET value == IF "title" \in DOMAIN body THEN Trim(body.title) ELSE <<>>
         IN  (IF ~optional /\ value = <<>>
              THEN << [field |-> "title", message |-> "Title is required"] >>
              ELSE <<>>)
             \o (IF Len(value) < 4 \/ Len(value) > 100
                 THEN << [field |-> "title",
                          message |-> "Title must be between 3 and 100 characters"] >>
                 ELSE <<>>)

\* a body('title') chain without isLength
TitleErrors_NoLength(body, optional) ==
    IF optional /\ "title" \notin DOMAIN body THEN <<>>
    ELSE LET value == IF "title" \in DOMAIN body THEN Trim(body.title) ELSE <<>>
         IN  IF ~optional /\ value = <<>>
             THEN << [field |-> "title", message |-> "Title is required"] >>
             ELSE <<>>

\* body('title'): trim, notEmpty (create only), isLength 3..100; optional()
\* skips the chain when the key is absent
TitleErrors(body, optional) ==
    IF optional /\ "title" \notin DOMAIN body THEN <<>>
    ELSE LET value == IF "title" \in DOMAIN body THEN Trim(body.title) ELSE <<>>
         IN  (IF ~optional /\ value = <<>>
              THEN << [field |-> "title", message |-> "Title is required"] >>
              ELSE <<>>)
             \o (IF Len(value) < 3 \/ Len(value) > 100
                 THEN << [field |-> "title",
                          message |-> "Title must be between 3 and 100 characters"] >>
                 ELSE <<>>)

\* body('content'): trim, isLength max 10000
ContentErrors(body) ==
    IF "content" \in DOMAIN body /\ Len(Trim(body.content)) > 10000
    THEN << [field |-> "content",
             message |-> "Content must not exceed 10000 characters"] >>
    ELSE <<>>

\* param('id'): isUUID (an empty :id matches no route with :id)
IdErrors(id) ==
    IF IsUUID(id) THEN <<>>
    ELSE << [field |-> "id", message |-> "Invalid note ID format"] >>

\* !req.body.key: the key is absent or holds the empty string
Falsy(body, key) == key \notin DOMAIN body \/ body[key] = <<>>

\* a validateUpdateNote without its body().custom check
AtLeastOneErrors_Never(body) == <<>>

\* body().custom of validateUpdateNote, on the sanitized body
AtLeastOneErrors(body) ==
    IF Falsy(body, "title") /\ Falsy(body, "content")
    THEN << [field |-> "",
             message |-> "At least one field (title or content) must be provided"] >>
    ELSE <<>>

\* validateQueryParams: page isInt min 1, limit isInt 1..100, search at most
\* 100 characters after trim
QueryErrors(query) ==
    (IF "page" \in DOMAIN query /\ query.page < 1
     THEN << [field |-> "page", message |-> "Page must be a positive integer"] >>
     ELSE <<>>)
    \o (IF "limit" \in DOMAIN query /\ (query.limit < 1 \/ query.limit > MaxLimit)
        THEN << [field |-> "limit", message |-> "Limit must be between 1 and 100"] >>
        ELSE <<>>)
    \o (IF "search" \in DOMAIN query /\ Len(Trim(query.search)) > 100
        THEN << [field |-> "search",
                 message |-> "Search query must not exceed 100 characters"] >>
        ELSE <<>>)

\* validationResult(req) after the chains of the route (note.routes.ts)
ValidationResult(request) ==
    CASE request.route = "create" ->
            TitleErrors(request.body, FALSE) \o ContentErrors(request.body)
      [] request.route = "list" -> QueryErrors(request.query)
      [] request.route \in {"get", "delete"} -> IdErrors(request.id)
      [] request.route = "update" ->
            IdErrors(request.id) \o TitleErrors(request.body, TRUE)
              \o ContentErrors(request.body)
              \o AtLeastOneErrors(Sanitized(request.body))

\* a handleValidationErrors that answers 422 Unprocessable Entity
HandleValidationErrors_UnprocessableEntity(errors) ==
    [ status |-> 422, body |-> [error |-> "Validation failed", details |-> errors] ]

\* handleValidationErrors: the 400 answer (each detail without its value)
HandleValidationErrors(errors) ==
    [ status |-> 400, body |-> [error |-> "Validation failed", details |-> errors] ]

\* new AppError(statusCode, message)
AppError(statusCode, message) ==
    [ isAppError |-> TRUE, statusCode |-> statusCode, message |-> message ]

\* new Error(message), TypeError
PlainError(message) == [ isAppError |-> FALSE, message |-> message ]

\* throw new AppError(404, `Note with id ${id} not found`)
NotFound(id) == AppError(404, "Note with id " \o ToString(id) \o " not found")

\* an errorHandler that answers every error as an unexpected one
ErrorHandler_Generic(err) ==
    [ status |-> 500,
      body |-> [ error |-> "Internal Server Error",
                 message |-> "Something went wrong on the server",
                 statusCode |-> 500 ] ]

\* errorHandler
ErrorHandler(err) ==
    IF err.isAppError
    THEN [ status |-> err.statusCode,
           body |-> [error |-> err.message, statusCode |-> err.statusCode] ]
    ELSE [ status |-> 500,
           body |-> [ error |-> "Internal Server Error",
                      message |-> "Something went wrong on the server",
                      statusCode |-> 500 ] ]

(* ------------------- storage and service with failures ---------------- *)

\* a data file that holds no JSON (a torn write, a foreign file), and one
\* that holds JSON which is no array, such as {}
CorruptFile == [exists |-> TRUE, json |-> "corrupt", notes |-> <<>>]

ObjectFile == [exists |-> TRUE, json |-> "object", notes |-> <<>>]

\* an ensureDataFile that leaves a missing file missing
EnsureDataFile_NoInit(f, failing) ==
    IF failing = "mkdir" THEN [raised |-> TRUE, file |-> f]
    ELSE [raised |-> FALSE, file |-> f]

\* ensureDataFile; `failing` names the file operation that fails in this
\* call, if any: "mkdir", or "init" for the fs.writeFile of []
EnsureDataFile(f, failing) ==
    IF failing = "mkdir" THEN [raised |-> TRUE, file |-> f]
    ELSE IF f.exists THEN [raised |-> FALSE, file |-> f]
    ELSE IF failing = "init" THEN [raised |-> TRUE, file |-> f]
    ELSE [raised |-> FALSE, file |-> WriteNotes(<<>>)]

\* a readNotes that empties the data file once it has read it
ReadNotesTry_Consume(f, failing) ==
    LET made == EnsureDataFile(f, failing)
    IN  IF made.raised \/ failing = "read" \/ made.file.json = "corrupt"
        THEN [notes |-> <<>>, isArray |-> TRUE, file |-> made.file, failed |-> TRUE]
        ELSE [ notes |-> ReadNotes(made.file), isArray |-> made.file.json = "array",
               file |-> WriteNotes(<<>>), failed |-> FALSE ]

\* readNotes with its catch: what it returns (notes; isArray tells whether
\* that is an array at all), the file it leaves, whether it caught a failure;
\* "read" is a failing fs.readFile
ReadNotesTry(f, failing) ==
    LET made == EnsureDataFile(f, failing)
    IN  IF made.raised \/ failing = "read" \/ made.file.json = "corrupt"
        THEN [notes |-> <<>>, isArray |-> TRUE, file |-> made.file, failed |-> TRUE]
        ELSE [ notes |-> ReadNotes(made.file), isArray |-> made.file.json = "array",
               file |-> made.file, failed |-> FALSE ]

\* a writeNotes that catches its failures as readNotes does
WriteNotesTry_Swallow(f, notes, failing) ==
    LET made == EnsureDataFile(f, failing)
    IN  IF made.raised \/ failing \in {"write", "torn"}
        THEN [raised |-> FALSE, file |-> made.file, writes |-> 0]
        ELSE [raised |-> FALSE, file |-> WriteNotes(notes), writes |-> 1]

\* writeNotes: whether it raised, the file it leaves, the number of
\* fs.writeFile calls it made for the collection; "write" is an fs.writeFile
\* that fails and leaves the file as it was, "torn" one that fails after it
\* has truncated the file
WriteNotesTry(f, notes, failing) ==
    LET made == EnsureDataFile(f, failing)
    IN  CASE made.raised -> [raised |-> TRUE, file |-> made.file, writes |-> 0]
          [] ~made.raised /\ failing = "write" ->
                [raised |-> TRUE, file |-> made.file, writes |-> 1]
          [] ~made.raised /\ failing = "torn" ->
                [raised |-> TRUE, file |-> CorruptFile, writes |-> 1]
          [] OTHER -> [raised |-> FALSE, file |-> WriteNotes(notes), writes |-> 1]

\* the message the controller sends with a service result
SuccessMessage(route) ==
    CASE route = "create" -> "Note created successfully"
      [] route = "list" -> "Notes retrieved successfully"
      [] route = "get" -> "Note retrieved successfully"
      [] route = "update" -> "Note updated successfully"
      [] route = "delete" -> "Note deleted successfully"

\* the outcome of a service method that ends without saving
Unsaved(rd, threw, err, value) ==
    [ threw |-> threw, err |-> err, value |-> value, file |-> rd.file,
      loaded |-> [notes |-> rd.notes, isArray |-> rd.isArray],
      loadFailed |-> rd.failed, saveFailed |-> FALSE, writes |-> 0 ]

\* the service method of the route, run from its call to its return or
\* throw with no other request in between.  fail.load and fail.save name the
\* file operation that fails inside readNotes and inside writeNotes
Service(request, f, now, newId, fail) ==
    LET rd == ReadNotesTry(f, fail.load)
        index == FindIndex(rd.notes, request.id)
        q == [op |-> request.route, id |-> request.id, dto |-> request.body,
              note |-> IF request.route = "create"
                       THEN NewNote(request.body, now, newId) ELSE NoNote]
    IN  IF ~rd.isArray
        THEN Unsaved(rd, TRUE, PlainError("TypeError"), NoNote)
        ELSE IF request.route = "list"
        THEN Unsaved(rd, FALSE, PlainError(""),
                     GetAllNotes(rd.notes, QueryParams(request.query)))
        ELSE IF request.route # "create" /\ index = 0
        THEN Unsaved(rd, TRUE, NotFound(request.id), NoNote)
        ELSE IF request.route = "get"
        THEN Unsaved(rd, FALSE, PlainError(""), rd.notes[index])
        ELSE LET id == IF request.route = "create" THEN newId ELSE request.id
                 note == NoteOf(q, rd.notes, now)
                 wr == WriteNotesTry(rd.file, Mutated(request.route, rd.notes, id, note),
                                     fail.save)
             IN  [ threw |-> wr.raised,
                   err |-> PlainError("Failed to write notes"),
                   value |-> note, file |-> wr.file,
                   loaded |-> [notes |-> rd.notes, isArray |-> rd.isArray],
                   loadFailed |-> rd.failed, saveFailed |-> wr.raised,
                   writes |-> wr.writes ]

\* the service method the controller of the route calls
ServiceMethod(route) ==
    CASE route = "create" -> "createNote"
      [] route = "list" -> "getAllNotes"
      [] route = "get" -> "getNoteById"
      [] route = "update" -> "updateNote"
      [] route = "delete" -> "deleteNote"

\* a controller that answers with success whenever the outcome carries a
\* note, thrown error or not
Controller_IgnoreThrow(route, out) ==
    IF out.threw /\ out.value = NoNote THEN ErrorHandler(out.err)
    ELSE [ status |-> SuccessStatus(route),
           body |-> IF route = "list"
                    THEN Spread([message |-> SuccessMessage(route)], out.value)
                    ELSE [message |-> SuccessMessage(route), data |-> out.value] ]

\* the controller inside asyncHandler: the answer to a service outcome
Controller(route, out) ==
    IF out.threw THEN ErrorHandler(out.err)
    ELSE [ status |-> SuccessStatus(route),
           body |-> IF route = "list"
                    THEN Spread([message |-> SuccessMessage(route)], out.value)
                    ELSE [message |-> SuccessMessage(route), data |-> out.value] ]

(* --------------- requests handled one after the other ----------------- *)

\* the note the data file may hold at the start
FirstNote ==
    NewNote([title |-> <<"A", "b", "c">>, content |-> <<"x", "y", "z">>],
            GetUzbekistanTime(0), UuidV4(1))

\* the data file at the start: missing, empty, with a note, corrupt, no array
HttpFiles ==
    { [exists |-> FALSE, json |-> "array", notes |-> <<>>],
      WriteNotes(<<>>), WriteNotes(<<FirstNote>>), CorruptFile, ObjectFile }

\* bodies of POST /notes: valid ones (with fields the API does not define,
\* with blanks around the title), a title that is too short, blank, absent,
\* too long
PostBodies ==
    CreateDtos \cup
    { [title |-> <<" ", "A", "b", "c">>, content |-> <<>>],
      [title |-> Chars(101), content |-> <<"x", "y", "z">>],
      [title |-> <<"A", "b">>, content |-> <<"x", "y", "z">>],
      [title |-> <<" ", " ", " ">>, content |-> <<"x", "y", "z">>],
      [content |-> <<"x", "y", "z">>] }

\* bodies of PATCH /notes/:id: valid ones, and {}, an empty content with
\* and without a title, a blank content, a title that is too short or too
\* long
PatchBodies ==
    UpdateDtos \cup
    { EmptyObj,
      [title |-> Chars(101)],
      [content |-> <<>>],
      [content |-> <<" ">>],
      [title |-> <<"X", "y", "z">>, content |-> <<>>],
      [title |-> <<"X">>] }

\* queries of GET /notes: valid ones, a page below 1, a limit above MaxLimit
GetQueries ==
    ListQueries \cup { [search |-> <<"A", "B">>], [page |-> 0], [limit |-> MaxLimit + 1] }

\* the :id of a request: no UUID (0), the ids drawn so far, one never drawn
PathIds == 0..nextId

\* which file operation fails while the request loads and while it saves
LoadFails == { "none", "mkdir", "init", "read" }

SaveFails == { "none", "mkdir", "init", "write", "torn" }

\* the stored note was written at time 0; the requests arrive at MaxClock
InitHttp ==
    /\ file \in HttpFiles
    /\ clock = MaxClock
    /\ nextId = 2
    /\ boot = "done"
    /\ issued = 0
    /\ req = [r \in Slots |-> IdleReq]
    /\ hist = NoHist
    /\ listed = NotListed
    /\ sent = NotSent

\* a request from its arrival to its answer: the validation chains of the
\* route and handleValidationErrors, then the controller and its service
\* method, then the answer.  sent keeps the answer (status, body) with the
\* request and what happened on the way: whether a service method was
\* invoked (and which, and the error it threw, if any), what its readNotes
\* returned, whether the load and the save met
\* a failure, the fs.writeFile calls made for the collection, the data file
\* before the request
Handle(request, fail) ==
    LET errors == ValidationResult(request)
        valid == [request EXCEPT !.body = Sanitized(@)]
        out == Service(valid, file, GetUzbekistanTime(clock), UuidV4(nextId), fail)
        seen == [route |-> request.route, request |-> request, before |-> file]
    IN  /\ issued < MaxCalls
        /\ issued' = issued + 1
        /\ IF errors # <<>>
           THEN /\ sent' = seen @@ HandleValidationErrors(errors) @@
                             [ invoked |-> FALSE, methods |-> <<>>, thrown |-> <<>>,
                               loaded |-> [notes |-> <<>>, isArray |-> TRUE],
                               loadFailed |-> FALSE,
                               saveFailed |-> FALSE, writes |-> 0 ]
                /\ UNCHANGED <<file, nextId>>
           ELSE /\ sent' = seen @@ Controller(request.route, out) @@
                             [ invoked |-> TRUE,
                               methods |-> <<ServiceMethod(request.route)>>,
                               thrown |-> IF out.threw THEN <<out.err>> ELSE <<>>,
                               loaded |-> out.loaded,
                               loadFailed |-> out.loadFailed,
                               saveFailed |-> out.saveFailed, writes |-> out.writes ]
                /\ file' = out.file
                /\ nextId' = IF request.route = "create" THEN nextId + 1 ELSE nextId
        /\ UNCHANGED <<clock, boot, req, hist, listed>>

\* POST /notes
PostNote(body, fail) ==
    /\ nextId <= MaxNotes
    /\ Handle([id |-> 0, query |-> EmptyObj, body |-> body, route |-> "create"], fail)

\* GET /notes
GetNotes(query, fail) ==
    Handle([id |-> 0, query |-> query, body |-> EmptyObj, route |-> "list"], fail)

\* GET /notes/:id
GetNote(id, fail) ==
    Handle([id |-> id, query |-> EmptyObj, body |-> EmptyObj, route |-> "get"], fail)

\* PATCH /notes/:id
PatchNote(id, body, fail) ==
    Handle([id |-> id, query |-> EmptyObj, body |-> body, route |-> "update"], fail)

\* DELETE /notes/:id
DeleteNote(id, fail) ==
    Handle([id |-> id, query |-> EmptyObj, body |-> EmptyObj, route |-> "delete"], fail)

\* the failures of one request: none, one file operation of the load or of
\* the save, or a directory that cannot be made in either
Fails ==
    { [load |-> load, save |-> "none"] : load \in LoadFails }
      \cup { [load |-> "none", save |-> save] : save \in SaveFails }
      \cup { [load |-> "mkdir", save |-> "mkdir"] }

\* the requests handled one after the other; the clock stands still
NextHttp ==
    \/ \E fail \in { f \in Fails : f.save = "none" } :
          \/ \E query \in GetQueries : GetNotes(query, fail)
          \/ \E id \in PathIds : GetNote(id, fail)
    \/ \E fail \in Fails :
          \/ \E body \in PostBodies : PostNote(body, fail)
          \/ \E id \in PathIds, body \in PatchBodies : PatchNote(id, body, fail)
          \/ \E id \in PathIds : DeleteNote(id, fail)

SpecHttp == InitHttp /\ [][NextHttp]_vars

(* ------------------ the validators at their boundaries ---------------- *)

\* no file operation fails
NoFail == [load |-> "none", save |-> "none"]

\* a string with p blanks before and after it
Padded(str, p) == [i \in 1..p |-> " "] \o str \o [i \in 1..p |-> " "]

\* bodies of POST /notes: titles of 0 to 100 + MaxBeyond letters and
\* contents of 10000 - MaxBeyond to 10000 + MaxBeyond letters, bare and
\* with a blank on either side
BoundaryPosts ==
    { [title |-> Padded(Chars(n), p), content |-> <<"x", "y", "z">>] :
        n \in 0..(100 + MaxBeyond), p \in 0..1 }
      \cup { [title |-> <<"A", "b", "c">>, content |-> Padded(Chars(n), p)] :
               n \in {0} \cup ((10000 - MaxBeyond)..(10000 + MaxBeyond)), p \in 0..1 }

\* bodies of PATCH /notes/:id with a title or a content around the limits
BoundaryPatches ==
    { [title |-> Padded(Chars(n), p)] :
        n \in (1..(3 + MaxBeyond)) \cup ((100 - MaxBeyond)..(100 + MaxBeyond)), p \in 0..1 }
      \cup { [content |-> Padded(Chars(n), p)] :
               n \in (10000 - MaxBeyond)..(10000 + MaxBeyond), p \in 0..1 }

\* queries of GET /notes with a limit from -1 to MaxLimit + MaxBeyond, a
\* page from -1 to MaxBeyond, or both
BoundaryQueries ==
    { [limit |-> l] : l \in (0 - 1)..(MaxLimit + MaxBeyond) }
      \cup { [page |-> p] : p \in (0 - 1)..MaxBeyond }
      \cup { [limit |-> l, page |-> p] :
               l \in {0, 1, MaxLimit, MaxLimit + 1}, p \in 0..1 }

\* one stored note, no request handled yet
InitValid ==
    /\ file = WriteNotes(<<FirstNote>>)
    /\ clock = MaxClock
    /\ nextId = 2
    /\ boot = "done"
    /\ issued = 0
    /\ req = [r \in Slots |-> IdleReq]
    /\ hist = NoHist
    /\ listed = NotListed
    /\ sent = NotSent

\* one request per behaviour, through its validators and, if they let it
\* pass, its controller and service method
NextValid ==
    /\ issued = 0
    /\ \/ \E body \in BoundaryPosts : PostNote(body, NoFail)
       \/ \E body \in BoundaryPatches : PatchNote(FirstNote.id, body, NoFail)
       \/ \E query \in BoundaryQueries : GetNotes(query, NoFail)

SpecValid == InitValid /\ [][NextValid]_vars

(* ------------- requests in flight whose file operations fail ---------- *)

\* a request that fails validation: handleValidationErrors answers 400
\* before any file operation is started
Rejected ==
    /\ issued < MaxCalls
    /\ issued' = issued + 1
    /\ UNCHANGED <<file, clock, nextId, boot, req, hist, listed, sent>>

\* fs.readFile of readNotes fails: readNotes catches the failure and
\* returns [].  getNoteById, updateNote and deleteNote find no note and
\* throw the 404; getAllNotes answers the empty list; createNote goes on to
\* save its note alone
ReadFailed(r) ==
    /\ AtRead(r)
    /\ IF req[r].op = "create"
       THEN req' = [req EXCEPT ![r] =
                      [req[r] EXCEPT
                         !.pc = "wAccess", !.loaded = <<>>,
                         !.notes = Mutated("create", <<>>, req[r].id, req[r].note)]]
       ELSE req' = [req EXCEPT ![r] = IdleReq]
    /\ listed' = IF req[r].op = "list"
                 THEN [ query |-> req[r].dto ] @@ ListHandler(<<>>, req[r].dto)
                 ELSE listed
    /\ UNCHANGED <<file, clock, nextId, boot, issued, hist, sent>>

\* fs.writeFile of writeNotes fails and leaves the file as it was:
\* writeNotes rethrows, the error responder answers 500
WriteFailed(r) ==
    /\ AtWrite(r)
    /\ req' = [req EXCEPT ![r] = IdleReq]
    /\ UNCHANGED <<file, clock, nextId, boot, issued, hist, listed, sent>>

\* the file operation request r waits for completes or fails, and r runs on
\* to its next file operation or to its answer
Completes(r) ==
    \/ ReadGet(r)
    \/ ReadList(r)
    \/ ReadNotFound(r)
    \/ ReadMutate(r)
    \/ Write(r)
    \/ ReadFailed(r)
    \/ WriteFailed(r)

\* up to MaxCalls requests, in flight together or not, on a data file that
\* exists; the clock stands still
NextLive ==
    \/ Rejected
    \/ \E r \in Slots :
          \/ \E dto \in CreateDtos : issued < MaxCalls /\ StartCreate(r, dto)
          \/ \E id \in KnownIds, dto \in UpdateDtos :
                issued < MaxCalls /\ StartUpdate(r, id, dto)
          \/ \E id \in KnownIds : issued < MaxCalls /\ StartDelete(r, id)
          \/ \E id \in KnownIds : issued < MaxCalls /\ StartGet(r, id)
          \/ \E query \in ListQueries : issued < MaxCalls /\ StartList(r, query)
          \/ Completes(r)

\* every file operation that was started completes or fails in the end
SpecLive ==
    Init /\ [][NextLive]_vars /\ \A r \in Slots : WF_vars(Completes(r))

(* --------------- fs.writeFile seen by a load part-way ----------------- *)

\* fs.writeFile opens the file with flag 'w', which truncates it, and then
\* writes the text; a fs.readFile in between gets the empty text (or a part
\* of the new text), which is no JSON.  The truncated file keeps, in notes,
\* the collection it held before: history for the properties, no load
\* returns it
Truncated(f) == [f EXCEPT !.json = "corrupt"]

\* the fs.writeFile of writeNotes has opened the data file
WriteOpen(r) ==
    /\ req[r].pc = "wAccess"
    /\ file.exists
    /\ file' = Truncated(file)
    /\ req' = [req EXCEPT ![r].pc = "wWrite"]
    /\ UNCHANGED <<clock, nextId, boot, issued, hist, listed, sent>>

\* the fs.writeFile of writeNotes has written its text: writeNotes returns
WriteData(r) ==
    /\ req[r].pc = "wWrite"
    /\ Write(r)

\* up to MaxCalls requests, in flight together or not, with the save in its
\* two steps; the clock stands still
NextTorn ==
    \E r \in Slots :
       \/ \E dto \in CreateDtos : issued < MaxCalls /\ StartCreate(r, dto)
       \/ \E id \in KnownIds, dto \in UpdateDtos :
             issued < MaxCalls /\ StartUpdate(r, id, dto)
       \/ \E id \in KnownIds : issued < MaxCalls /\ StartDelete(r, id)
       \/ \E id \in KnownIds : issued < MaxCalls /\ StartGet(r, id)
       \/ \E query \in ListQueries : issued < MaxCalls /\ StartList(r, query)
       \/ ReadGet(r)
       \/ ReadList(r)
       \/ ReadNotFound(r)
       \/ ReadMutate(r)
       \/ WriteOpen(r)
       \/ WriteData(r)

SpecTorn == InitValid /\ [][NextTorn]_vars

(* ----------------------------- properties ----------------------------- *)

\* the persisted collection: what a load returns now
Persisted == ReadNotes(file)

\* what a getNoteById(id) that loads now answers
Fetch(id) == GetNoteById(Persisted, id)

\* the step in which request r saves and answers
WriteStep(r) == AtWrite(r) /\ req'[r].pc = "idle"

\* the total a list without search reports for a collection
Total(notes) == GetAllNotes(notes, EmptyObj).pagination.total

\* C1 as stated: every note N that createNote returned is fetched unchanged
\* by a following getNoteById(N.id), provided no update or delete of N.id was
\* issued since.
C1_RoundTripAnyOverlap ==
    \A n \in hist.created :
        n.id \notin hist.touched => Fetch(n.id) = [status |-> 200, data |-> n]

\* C1 amended: the same for the notes whose createNote saved Unraced: no
\* request that loaded before that save was still to save.
C1_RoundTrip ==
    \A n \in hist.kept :
        n.id \notin hist.touched => Fetch(n.id) = [status |-> 200, data |-> n]

\* a note created Unraced is still fetched after a later create was saved
C1_Witness ==
    \E n \in hist.kept :
        /\ n.id \notin hist.touched
        /\ Fetch(n.id).data = n
        /\ Len(Persisted) > 1

\* a mutation m, saved by another request, shows in a collection
Visible(m, notes) ==
    CASE m.op = "create" -> m.id \in NoteIds(notes)
      [] m.op = "update" -> \E i \in 1..Len(notes) : notes[i] = m.note
      [] m.op = "delete" -> m.id \notin NoteIds(notes)

\* C2 as stated: when request r saves, the persisted collection is the one r
\* computed from what it loaded, and no mutation that another request saved
\* since r loaded shows in it.
C2_LostMutationAlways ==
    [][ \A r \in Slots :
          WriteStep(r) =>
            /\ ReadNotes(file') =
                 Mutated(req[r].op, req[r].loaded, req[r].id, req[r].note)
            /\ \A m \in req[r].missed : ~Visible(m, ReadNotes(file')) ]_vars

\* C2 amended: when request r saves, the persisted collection is the one r
\* computed from what it loaded; a note another request created since r
\* loaded is absent from it, and an update or delete another request saved
\* since then shows in it only if it showed in what r loaded or r made the
\* same kind of change to the same id.
C2_LastWriteWins ==
    [][ \A r \in Slots :
          WriteStep(r) =>
            /\ ReadNotes(file') =
                 Mutated(req[r].op, req[r].loaded, req[r].id, req[r].note)
            /\ \A m \in req[r].missed :
                 /\ m.op = "create" => ~Visible(m, ReadNotes(file'))
                 /\ Visible(m, ReadNotes(file')) =>
                      \/ Visible(m, req[r].loaded)
                      \/ req[r].op = m.op /\ req[r].id = m.id ]_vars

\* two createNote calls have answered, nothing was deleted, and one note is
\* persisted: a created note was lost
C2_Witness ==
    /\ Cardinality(hist.created) = 2
    /\ hist.deleted = {}
    /\ Len(Persisted) = 1

\* C3: no two notes of the persisted collection have the same id.
C3_UniqueIds ==
    \A i, j \in 1..Len(Persisted) : Persisted[i].id = Persisted[j].id => i = j

\* two notes are persisted while a request holds a collection loaded before
\* the last save
C3_Witness ==
    /\ Len(Persisted) = 2
    /\ \E s \in Slots : req[s].stale

\* C4 as stated: an id that deleteNote reported deleted is Not-Found from
\* then on; the save of deleteNote lowers the total by one and the note it
\* returns is the stored one.
C4_DeleteAnyOverlap ==
    [][ /\ \A id \in hist'.deleted :
              GetNoteById(ReadNotes(file'), id).status = 404
        /\ \A r \in Slots :
              WriteStep(r) /\ req[r].op = "delete" =>
                 /\ Total(ReadNotes(file')) = Total(Persisted) - 1
                 /\ req[r].note = Fetch(req[r].id).data ]_vars

\* C4 amended: a note that deleteNote returned with an Unraced save is
\* Not-Found from then on; the save of a deleteNote whose loaded collection
\* is still the persisted one lowers the total by one and the note it
\* returns is the stored one.
C4_DeleteRemovesOne ==
    [][ /\ \A n \in hist'.gone :
              GetNoteById(ReadNotes(file'), n.id).status = 404
        /\ \A r \in Slots :
              WriteStep(r) /\ req[r].op = "delete" /\ ~req[r].stale =>
                 /\ Total(ReadNotes(file')) = Total(Persisted) - 1
                 /\ req[r].note = Fetch(req[r].id).data ]_vars

\* a note was deleted after an update: deleteNote returned the updated
\* title, and the id is Not-Found
C4_Witness ==
    \E n \in hist.gone :
        /\ n.title = <<"X", "y", "z">>
        /\ Fetch(n.id).status = 404

\* the note `new` is the note `old` with the title and content of the patch
\* and some updatedAt; every other field, and a field the patch lacks, is
\* the one of `old`
Patched(dto, old, new) ==
    /\ DOMAIN new = DOMAIN old
    /\ \A k \in DOMAIN old :
          \/ k = "updatedAt"
          \/ new[k] = IF k \in {"title", "content"} \cap DOMAIN dto THEN dto[k] ELSE old[k]

\* C5 as stated: the save of updateNote changes, in the stored note, the
\* fields of the patch and updatedAt only.
C5_FrameAnyOverlap ==
    [][ \A r \in Slots :
          WriteStep(r) /\ req[r].op = "update" /\ req[r].id \in NoteIds(Persisted) =>
             Patched(req[r].dto, Fetch(req[r].id).data,
                     GetNoteById(ReadNotes(file'), req[r].id).data) ]_vars

\* C5 amended: the note updateNote saves and returns is the note it loaded
\* with the fields of the patch and updatedAt changed only; it is the stored
\* note so changed when the loaded collection is still the persisted one.
C5_PartialUpdate ==
    [][ \A r \in Slots :
          WriteStep(r) /\ req[r].op = "update" =>
             LET after == GetNoteById(ReadNotes(file'), req[r].id).data
             IN  /\ after = req[r].note
                 /\ Patched(req[r].dto,
                            req[r].loaded[FindIndex(req[r].loaded, req[r].id)], after)
                 /\ ~req[r].stale => Patched(req[r].dto, Fetch(req[r].id).data, after) ]_vars

\* a title-only patch was saved: the title is the patch's, the content is
\* still the one of the create
C5_Witness ==
    \E i \in 1..Len(Persisted) :
        /\ Persisted[i].title = <<"X", "y", "z">>
        /\ Persisted[i].content = <<"x", "y", "z">>

\* no id of both collections has a smaller updatedAt in `after`
UpdatedAtKept(before, after) ==
    \A i \in 1..Len(before), j \in 1..Len(after) :
        before[i].id = after[j].id => before[i].updatedAt <= after[j].updatedAt

\* C6 as stated: from one persisted state to the next, the updatedAt under
\* an id never decreases.
C6_MonotoneAnyOverlap ==
    [][ UpdatedAtKept(Persisted, ReadNotes(file')) ]_vars

\* C6 amended: the same for every step but the save of a request whose
\* loaded collection was overwritten by another save in between.
C6_UpdatedAtMonotone ==
    [][ \/ \E r \in Slots : WriteStep(r) /\ req[r].stale
        \/ UpdatedAtKept(Persisted, ReadNotes(file')) ]_vars

\* an update saved a later updatedAt and no request is in flight
C6_Witness ==
    /\ \E i \in 1..Len(Persisted) : Persisted[i].updatedAt > Persisted[i].createdAt
    /\ \A s \in Slots : req[s].op = "idle"

\* C7: every persisted note has createdAt <= updatedAt, and the two are
\* equal in every note createNote returned.
C7_CreatedBeforeUpdated ==
    /\ \A i \in 1..Len(Persisted) : Persisted[i].createdAt <= Persisted[i].updatedAt
    /\ \A n \in hist.created : n.createdAt = n.updatedAt

\* a persisted note was updated after its creation, while a request holds
\* a collection loaded before the last save
C7_Witness ==
    /\ \E i \in 1..Len(Persisted) : Persisted[i].createdAt < Persisted[i].updatedAt
    /\ \E s \in Slots : req[s].stale

\* C8: every persisted note has the id and the createdAt of the note that
\* createNote returned under that id, which are a uuidv4 draw and a reading
\* of the server clock; createNote returned one note per id; an update in
\* flight has changed no id of the collection it loaded.
C8_IdAndCreatedAtImmutable ==
    /\ \A i \in 1..Len(Persisted) :
          \E n \in hist.created :
              n.id = Persisted[i].id /\ n.createdAt = Persisted[i].createdAt
    /\ \A n, m \in hist.created : n.id = m.id => n = m
    /\ \A n \in hist.created :
          /\ n.id \in { UuidV4(k) : k \in 1..(nextId - 1) }
          /\ n.createdAt \in { GetUzbekistanTime(t) : t \in 0..clock }
    /\ \A s \in Slots :
          Pending(s) /\ req[s].op = "update" =>
             [i \in 1..Len(req[s].notes) |-> req[s].notes[i].id]
               = [i \in 1..Len(req[s].loaded) |-> req[s].loaded[i].id]

\* the patch that carries a client's id and timestamps was saved for a note
\* with another id
C8_Witness ==
    \E i \in 1..Len(Persisted) :
        /\ Persisted[i].content = <<"n", "e", "w">>
        /\ Persisted[i].id # HostileFields.id

\* the pages from..to of a query, one after the other
RECURSIVE PagesData(_, _, _, _)
PagesData(notes, params, from, to) ==
    IF from > to THEN <<>>
    ELSE GetAllNotes(notes, Spread(params, [page |-> from])).data
           \o PagesData(notes, params, from + 1, to)

\* C9: for the collection, search and limit of every answered list, the
\* data of pages 1..totalPages, one after the other, are the filtered notes
\* in stored order, each once, and the pages after totalPages are empty.
C9_PaginationPartition ==
    listed.status # 0 =>
       LET params == QueryParams(listed.query)
           pages == listed.body.pagination.totalPages
       IN  /\ PagesData(Persisted, params, 1, pages) = Searched(Persisted, params)
           /\ \A p \in (pages + 1)..(pages + 2) :
                 GetAllNotes(Persisted, Spread(params, [page |-> p])).data = <<>>

\* a list with limit 1 on a collection of which two or more notes match a
\* search: several pages
C9_Witness ==
    /\ listed.status # 0
    /\ "search" \in DOMAIN listed.query
    /\ listed.body.pagination.limit = 1
    /\ listed.body.pagination.totalPages >= 2
    /\ listed.body.pagination.total < Len(Persisted)

\* C10: an answered list has status 200, echoes page and limit (1 and 10
\* when absent), reports the number of filtered notes as total and the
\* least number of pages of `limit` notes that hold them as totalPages, and
\* its data are the filtered notes at the 0-based positions
\* (page-1)*limit .. (page-1)*limit + limit - 1 that exist.
C10_ListResult ==
    listed.status # 0 =>
       LET query == listed.query
           page == IF "page" \in DOMAIN query THEN query.page ELSE 1
           limit == IF "limit" \in DOMAIN query THEN query.limit ELSE 10
           found == Searched(Persisted, QueryParams(query))
           got == listed.body
           first == (page - 1) * limit
           count == IF first >= Len(found) THEN 0
                    ELSE IF Len(found) - first < limit THEN Len(found) - first
                    ELSE limit
       IN  /\ listed.status = 200
           /\ got.pagination.page = page
           /\ got.pagination.limit = limit
           /\ got.pagination.total = Len(found)
           /\ got.pagination.totalPages * limit >= Len(found)
           /\ (got.pagination.totalPages - 1) * limit < Len(found) \/ Len(found) = 0
           /\ Len(found) = 0 => got.pagination.totalPages = 0
           /\ got.data = [i \in 1..count |-> found[first + i]]

\* a list whose offset is past the last filtered note: empty data, with a
\* total that is not 0
C10_Witness ==
    /\ listed.status = 200
    /\ listed.body.data = <<>>
    /\ listed.body.pagination.total > 0
    /\ "limit" \notin DOMAIN listed.query

\* a and b are the same string but for the case of their letters
SameIgnoringCase(a, b) ==
    /\ Len(a) = Len(b)
    /\ \A i \in 1..Len(a) : LowerChar(a[i]) = LowerChar(b[i])

\* sub occurs in str, the case of the letters ignored
ContainsIgnoringCase(str, sub) ==
    \E k \in 0..(Len(str) - Len(sub)) :
        SameIgnoringCase(SubSeq(str, k + 1, k + Len(sub)), sub)

\* the positions of the persisted notes that a list with this query retains
Retained(query) ==
    IF "search" \in DOMAIN query /\ \E i \in 1..Len(query.search) : query.search[i] # " "
    THEN { i \in 1..Len(Persisted) :
             \/ ContainsIgnoringCase(Persisted[i].title, query.search)
             \/ ContainsIgnoringCase(Persisted[i].content, query.search) }
    ELSE 1..Len(Persisted)

\* C11: an answered list counts exactly the notes whose title or content
\* contains the search string, case ignored, and all notes when search is
\* absent or blank; its first page, when the limit is not below the size of
\* the collection, holds exactly these notes, each once, in stored order.
C11_SearchFilter ==
    listed.status # 0 =>
       LET query == listed.query
           data == listed.body.data
       IN  /\ listed.body.pagination.total = Cardinality(Retained(query))
           /\ listed.body.pagination.page = 1
                /\ listed.body.pagination.limit >= Len(Persisted) =>
                 /\ Len(data) = Cardinality(Retained(query))
                 /\ \A i \in 1..Len(data) :
                       \E p \in Retained(query) :
                           /\ data[i] = Persisted[p]
                           /\ Cardinality({ q \in Retained(query) : q < p }) = i - 1

\* a search in capitals has matched a title in small letters, and another
\* note was left out
C11_Witness ==
    /\ listed.status = 200
    /\ "search" \in DOMAIN listed.query
    /\ listed.query.search = <<"A", "B">>
    /\ Len(listed.body.data) >= 1
    /\ listed.body.pagination.total < Len(Persisted)

\* C20: when a request saves a change of the collection it loaded and that
\* collection is still the persisted one, create adds its note as the last
\* element, update puts its note at the position the id has, delete takes
\* one element out, and every other note is kept, in the same order.
C20_OrderPreserved ==
    [][ \A r \in Slots :
          WriteStep(r) /\ ~req[r].stale =>
             LET old == Persisted
                 new == ReadNotes(file')
                 pos == FindIndex(old, req[r].id)
             IN  CASE req[r].op = "create" ->
                        /\ Len(new) = Len(old) + 1
                        /\ new[Len(new)] = req[r].note
                        /\ \A i \in 1..Len(old) : new[i] = old[i]
                   [] req[r].op = "update" ->
                        /\ Len(new) = Len(old)
                        /\ pos # 0
                        /\ new[pos].id = req[r].id
                        /\ \A i \in 1..Len(old) : i # pos => new[i] = old[i]
                   [] req[r].op = "delete" ->
                        /\ Len(new) = Len(old) - 1
                        /\ pos # 0
                        /\ \A i \in 1..Len(new) :
                              new[i] = IF i < pos THEN old[i] ELSE old[i + 1] ]_vars

\* two notes were created one after the other and the first was updated:
\* it is still the first
C20_Witness ==
    /\ Len(Persisted) = 2
    /\ Persisted[1].id = UuidV4(1)
    /\ Persisted[1].updatedAt > Persisted[1].createdAt
    /\ Persisted[2].id = UuidV4(2)
    /\ \A s \in Slots : req[s].op = "idle"

\* C12: a getNoteById, updateNote or deleteNote whose id is not in the
\* collection it loaded is answered with status 404 and the body
\* {error: "Note with id <id> not found", statusCode: 404}; it made no
\* fs.writeFile call for the collection and the persisted collection is the
\* one before the request.
C12_NotFound ==
    /\ sent.route \in {"get", "update", "delete"}
    /\ sent.invoked
    /\ sent.loaded.isArray
    /\ sent.request.id \notin NoteIds(sent.loaded.notes)
    => /\ sent.status = 404
       /\ sent.body = [ error |-> "Note with id " \o ToString(sent.request.id) \o " not found",
                        statusCode |-> 404 ]
       /\ sent.writes = 0
       /\ ReadNotes(file) = ReadNotes(sent.before)

\* a DELETE of a well-formed id that no note has, on a file with a note
C12_Witness ==
    /\ sent.route = "delete"
    /\ sent.status = 404
    /\ sent.before = WriteNotes(<<FirstNote>>)
    /\ file = sent.before

\* C13: the readNotes of a request returned the empty array whenever it met
\* a failure, and it met one whenever the file held no JSON; when the file
\* was missing and no file operation failed it returned the empty array and,
\* as the file after a GET shows, left a file holding the empty collection;
\* no GET on a file that is missing, holds no JSON or holds an array was
\* answered with an error other than Not-Found.
C13_LoadNeverFails ==
    sent.route # "none" /\ sent.invoked =>
       /\ sent.loadFailed => sent.loaded = [notes |-> <<>>, isArray |-> TRUE]
       /\ sent.before = CorruptFile => sent.loadFailed
       /\ ~sent.before.exists /\ ~sent.loadFailed =>
             /\ sent.loaded = [notes |-> <<>>, isArray |-> TRUE]
             /\ sent.route \in {"get", "list"} => file = WriteNotes(<<>>)
       /\ sent.route \in {"get", "list"} /\ sent.before.json # "object" =>
             /\ sent.status \in {200, 404}
             /\ sent.status = 404 => sent.route = "get"

\* a GET /notes on a missing file: 200 with no notes, and the file is there
C13_Witness ==
    /\ sent.route = "list"
    /\ ~sent.before.exists
    /\ ~sent.loadFailed
    /\ sent.status = 200
    /\ sent.body.data = <<>>
    /\ file = WriteNotes(<<>>)

\* C14 as stated: a POST /notes that passed validation is answered with 201
\* and the new note unless its writeNotes raised, whatever the data file
\* held when it was loaded; it is never answered Not-Found.
C14_CreateFailsOnlyOnSave ==
    sent.route = "create" /\ sent.invoked =>
       /\ sent.status # 404
       /\ \/ sent.saveFailed
          \/ /\ sent.status = 201
             /\ sent.body.data.title = Trim(sent.request.body.title)
             /\ file.notes # <<>>
             /\ file.notes[Len(file.notes)] = sent.body.data

\* a POST /notes on a data file whose JSON is no array: answered 500 with
\* no file operation failed and nothing written
C14_Witness ==
    /\ sent.route = "create"
    /\ sent.invoked
    /\ sent.before = ObjectFile
    /\ ~sent.saveFailed /\ ~sent.loadFailed
    /\ sent.status = 500
    /\ sent.writes = 0
    /\ file = ObjectFile

\* the body errorHandler sends for an error that is no AppError
GenericBody ==
    [ error |-> "Internal Server Error",
      message |-> "Something went wrong on the server",
      statusCode |-> 500 ]

\* C15: a create, update or delete whose writeNotes raised is answered with
\* status 500 and the generic body, and made at most one fs.writeFile call
\* for the collection.
C15_SaveFailureIs500 ==
    sent.route # "none" /\ sent.saveFailed =>
       /\ sent.route \in {"create", "update", "delete"}
       /\ sent.status = 500
       /\ sent.body = GenericBody
       /\ sent.writes <= 1

\* a PATCH of a stored note whose fs.writeFile failed: 500, and the file is
\* as it was
C15_Witness ==
    /\ sent.route = "update"
    /\ sent.saveFailed
    /\ sent.writes = 1
    /\ sent.status = 500
    /\ sent.before = WriteNotes(<<FirstNote>>)
    /\ file = sent.before

\* C16 as stated: a request during which the load or the save met a storage
\* failure or a parse failure is answered with status 500 and the generic
\* body.
C16_EveryFailureIs500 ==
    sent.route # "none" /\ (sent.loadFailed \/ sent.saveFailed) =>
       sent.status = 500 /\ sent.body = GenericBody

\* C16 amended: a request whose save met a failure is answered with status
\* 500 and the generic body; a request whose load met a failure, and whose
\* save met none, is answered as on an empty collection: a list with 200 and
\* no notes, a get, update or delete with 404, a create with 201, after
\* which the new note is the only persisted note.
C16_SaveFailureOnly ==
    sent.route # "none" =>
       /\ sent.saveFailed => sent.status = 500 /\ sent.body = GenericBody
       /\ sent.loadFailed /\ ~sent.saveFailed =>
             CASE sent.route = "list" ->
                     /\ sent.status = 200
                     /\ sent.body.data = <<>>
                     /\ sent.body.pagination.total = 0
               [] sent.route = "create" ->
                     /\ sent.status = 201
                     /\ file = WriteNotes(<<sent.body.data>>)
               [] OTHER -> sent.status = 404

\* a POST /notes whose fs.readFile failed on a file with a note: answered
\* 201, and the stored note is gone
C16_Witness ==
    /\ sent.route = "create"
    /\ sent.loadFailed
    /\ sent.before = WriteNotes(<<FirstNote>>)
    /\ sent.status = 201
    /\ Len(file.notes) = 1
    /\ file.notes[1].id # FirstNote.id

\* C17: a request of any of the five routes that fails validation is
\* answered with status 400 and a body of exactly error "Validation failed"
\* and a non-empty list of details; no Service method is invoked for it,
\* nothing is written, and the data file is as it was before the request.
C17_ValidationShortCircuits ==
    sent.route # "none" /\ ValidationResult(sent.request) # <<>> =>
       /\ sent.status = 400
       /\ DOMAIN sent.body = {"error", "details"}
       /\ sent.body.error = "Validation failed"
       /\ sent.body.details = ValidationResult(sent.request)
       /\ sent.body.details # <<>>
       /\ ~sent.invoked
       /\ sent.writes = 0
       /\ file = sent.before

\* a PATCH of the stored note with a title of one character: answered 400,
\* the stored note is untouched
C17_Witness ==
    /\ sent.route = "update"
    /\ sent.request.id = FirstNote.id
    /\ sent.request.body = [title |-> <<"X">>]
    /\ sent.status = 400
    /\ sent.before = WriteNotes(<<FirstNote>>)
    /\ file = WriteNotes(<<FirstNote>>)

\* the messages of the details of a 400 answer
Messages(details) == { details[i].message : i \in DOMAIN details }

\* the stored note with this id, in a data file: a set of at most one note
StoredNote(f, id) == { f.notes[i] : i \in { j \in DOMAIN f.notes : f.notes[j].id = id } }

\* C18: a PATCH whose body holds neither title nor content is answered with
\* status 400 and, among the details, the message "At least one field
\* (title or content) must be provided"; updateNote is not invoked, and the
\* note with the id of the request, if stored, keeps its updatedAt (and the
\* whole data file is as before).
C18_UpdateNeedsAField ==
    /\ sent.route = "update"
    /\ "title" \notin DOMAIN sent.request.body
    /\ "content" \notin DOMAIN sent.request.body
    => /\ sent.status = 400
       /\ sent.body.error = "Validation failed"
       /\ "At least one field (title or content) must be provided"
             \in Messages(sent.body.details)
       /\ ~sent.invoked
       /\ \A n \in StoredNote(sent.before, sent.request.id) :
             \E m \in StoredNote(file, sent.request.id) : m.updatedAt = n.updatedAt
       /\ file = sent.before

\* PATCH {} for the stored note, later than the note was written: answered
\* 400 with the dedicated message only, the note still carries its first
\* updatedAt
C18_Witness ==
    /\ sent.route = "update"
    /\ sent.request.id = FirstNote.id
    /\ sent.request.body = EmptyObj
    /\ sent.status = 400
    /\ Messages(sent.body.details)
          = { "At least one field (title or content) must be provided" }
    /\ GetUzbekistanTime(clock) > FirstNote.updatedAt
    /\ StoredNote(file, FirstNote.id) = { FirstNote }

\* C19 as stated: a PATCH for a stored id whose body holds content as the
\* empty string and no title is accepted (no 400), and afterwards the
\* stored note has the empty content and the title it had.
C19_EmptyContentOverwrites ==
    /\ sent.route = "update"
    /\ sent.request.body = [content |-> <<>>]
    /\ sent.before.exists /\ sent.before.json = "array"
    /\ StoredNote(sent.before, sent.request.id) # {}
    /\ ~sent.loadFailed /\ ~sent.saveFailed
    => /\ sent.status = 200
       /\ \A n \in StoredNote(sent.before, sent.request.id) :
             \E m \in StoredNote(file, sent.request.id) :
                /\ m.content = <<>>
                /\ m.title = n.title

\* PATCH {content: ""} for the stored note: answered 400 with the message
\* that no field was provided, updateNote not invoked, the stored content
\* is the one from before
C19_Witness ==
    /\ sent.route = "update"
    /\ sent.request.id = FirstNote.id
    /\ sent.request.body = [content |-> <<>>]
    /\ sent.before = WriteNotes(<<FirstNote>>)
    /\ sent.status = 400
    /\ "At least one field (title or content) must be provided"
          \in Messages(sent.body.details)
    /\ ~sent.invoked
    /\ StoredNote(file, FirstNote.id) = { FirstNote }
    /\ FirstNote.content # <<>>

\* the step is the handling of one request
Handled == issued' = issued + 1 /\ sent'.route # "none"

\* a list or a get leaves the data file as it is, but for the missing file
\* that ensureDataFile makes with the empty collection: the persisted
\* collection is the same before and after
ReadOnlyStep ==
    Handled /\ sent'.route \in {"list", "get"} =>
       /\ ReadNotes(file') = ReadNotes(file)
       /\ file' # file => ~file.exists /\ file' = WriteNotes(<<>>)

\* two GET /notes with the same query, the second handled right after the
\* first
ListTwice ==
    /\ Handled
    /\ sent.route = "list"
    /\ sent'.route = "list"
    /\ sent'.request.query = sent.request.query

Fields(details) == { details[i].field : i \in DOMAIN details }

\* the field of a request: a key of the body or of the query
HasField(request, key) ==
    IF request.route = "list" THEN key \in DOMAIN request.query
    ELSE key \in DOMAIN request.body

\* C23: a request is refused (400) with a detail for the title exactly when
\* the title is given, or required (POST), and its trimmed length is not
\* between 3 and 100; with a detail for the content exactly when the
\* trimmed content is longer than 10000; with a detail for the limit
\* exactly when the limit is given and not in 1..100; with a detail for the
\* page exactly when the page is given and below 1.  A request with none of
\* these is passed to its service method (and answered 201 or 200).
C23_Boundaries ==
    sent.route # "none" =>
       LET r == sent.request
           refused == IF sent.status = 400 THEN Fields(sent.body.details) ELSE {}
           titleLength == IF HasField(r, "title") THEN Len(Trim(r.body.title)) ELSE 0
       IN  /\ "title" \in refused <=>
                /\ r.route \in {"create", "update"}
                /\ r.route = "create" \/ HasField(r, "title")
                /\ titleLength < 3 \/ titleLength > 100
           /\ "content" \in refused <=>
                /\ r.route \in {"create", "update"}
                /\ HasField(r, "content")
                /\ Len(Trim(r.body.content)) > 10000
           /\ "limit" \in refused <=>
                /\ r.route = "list"
                /\ HasField(r, "limit")
                /\ r.query.limit < 1 \/ r.query.limit > 100
           /\ "page" \in refused <=>
                /\ r.route = "list"
                /\ HasField(r, "page")
                /\ r.query.page < 1
           /\ refused = {} => sent.invoked /\ sent.status \in {200, 201}
           /\ refused # {} => ~sent.invoked

\* a POST whose title is 100 letters between two blanks is answered 201
C23_Witness ==
    /\ sent.route = "create"
    /\ Len(sent.request.body.title) = 102
    /\ Len(Trim(sent.request.body.title)) = 100
    /\ sent.status = 201
    /\ sent.body.data.title = Chars(100)

\* C24: a request that passes validation invokes exactly one service
\* method, the one of its route.  When the method returns, the answer has
\* status 201 for create and 200 for list, get, update and delete.  When it
\* throws, the answer is that of the error responder for the thrown error:
\* the error's own status and message for an AppError, 500 with the generic
\* body for any other error.
C24_OneServiceCall ==
    sent.route # "none" /\ ValidationResult(sent.request) = <<>> =>
       /\ Len(sent.methods) = 1
       /\ sent.methods[1] = ServiceMethod(sent.route)
       /\ sent.thrown = <<>> =>
             /\ sent.status = IF sent.route = "create" THEN 201 ELSE 200
             /\ "message" \in DOMAIN sent.body
             /\ "error" \notin DOMAIN sent.body
       /\ \A i \in DOMAIN sent.thrown :
             LET err == sent.thrown[i]
             IN  IF err.isAppError
                 THEN /\ sent.status = err.statusCode
                      /\ sent.body = [error |-> err.message, statusCode |-> err.statusCode]
                 ELSE /\ sent.status = 500
                      /\ sent.body = GenericBody

\* a DELETE of an id that no note has: deleteNote was invoked and threw the
\* AppError, which the error responder answered with its status and message
C24_Witness ==
    /\ sent.route = "delete"
    /\ sent.methods = <<"deleteNote">>
    /\ sent.thrown = <<NotFound(sent.request.id)>>
    /\ sent.status = 404
    /\ sent.body.error = NotFound(sent.request.id).message
    /\ file = sent.before

\* request r is in flight: received and not yet answered
InFlight(r) == req[r].op # "idle"

\* C25: every request in flight is answered in the end, whatever other
\* requests are in flight, provided each file operation that was started
\* completes or fails; and it never waits for another request: in every
\* state, the file operation of every request in flight can complete.
C25_EveryRequestAnswered ==
    /\ [](\A r \in Slots : InFlight(r) => ENABLED Completes(r))
    /\ \A r \in Slots : InFlight(r) ~> ~InFlight(r)

\* two requests in flight, both between their load and their save
C25_Witness ==
    /\ \A r \in Slots : InFlight(r)
    /\ \E r, s \in Slots : r # s /\ Pending(r) /\ Pending(s)

\* the abstract sequence of notes and its operations
AbsHas(abs, id) == \E i \in DOMAIN abs : abs[i].id = id

AbsNote(abs, id) == abs[CHOOSE i \in DOMAIN abs : abs[i].id = id]

\* the note with the fields of the patch laid over it, stamped now
AbsMerged(old, patch, now) ==
    [ id |-> old.id,
      title |-> IF "title" \in DOMAIN patch THEN Trim(patch.title) ELSE old.title,
      content |-> IF "content" \in DOMAIN patch THEN Trim(patch.content) ELSE old.content,
      createdAt |-> old.createdAt,
      updatedAt |-> now ]

\* what the abstract sequence becomes and answers for a request: create
\* appends, update replaces in place, delete removes the element, list and
\* get change nothing; an id the sequence does not hold is answered 404
Abstract(abs, r, now, newId) ==
    LET missing == [ abs |-> abs, status |-> 404,
                     body |-> [ error |-> "Note with id " \o ToString(r.id) \o " not found",
                                statusCode |-> 404 ] ]
    IN  CASE r.route = "create" ->
               LET note == [ id |-> newId, title |-> Trim(r.body.title),
                             content |-> Trim(r.body.content),
                             createdAt |-> now, updatedAt |-> now ]
               IN  [ abs |-> abs \o <<note>>, status |-> 201,
                     body |-> [data |-> note, message |-> "Note created successfully"] ]
          [] r.route = "list" ->
               [ abs |-> abs, status |-> 200,
                 body |-> Spread([message |-> "Notes retrieved successfully"],
                                 GetAllNotes(abs, QueryParams(r.query))) ]
          [] r.route = "get" ->
               IF ~AbsHas(abs, r.id) THEN missing
               ELSE [ abs |-> abs, status |-> 200,
                      body |-> [ data |-> AbsNote(abs, r.id),
                                 message |-> "Note retrieved successfully" ] ]
          [] r.route = "update" ->
               IF ~AbsHas(abs, r.id) THEN missing
               ELSE LET note == AbsMerged(AbsNote(abs, r.id), r.body, now)
                    IN  [ abs |-> [ i \in DOMAIN abs |->
                                      IF abs[i].id = r.id THEN note ELSE abs[i] ],
                          status |-> 200,
                          body |-> [data |-> note, message |-> "Note updated successfully"] ]
          [] r.route = "delete" ->
               IF ~AbsHas(abs, r.id) THEN missing
               ELSE [ abs |-> SelectSeq(abs, LAMBDA n : n.id # r.id), status |-> 200,
                      body |-> [ data |-> AbsNote(abs, r.id),
                                 message |-> "Note deleted successfully" ] ]

\* C26: requests handled one after the other, no file operation failing, on
\* a data file that is missing or holds an array: after every request that
\* passed validation the persisted collection is the abstract sequence
\* (create appends, update replaces in place, delete removes the matching
\* element, list and get change nothing) applied to the collection
\* persisted before it, and status and body of the answer are those of the
\* abstract sequence.
C26_SerialRefinement ==
    /\ sent.route # "none"
    /\ sent.invoked
    /\ sent.before.json = "array"
    /\ ~sent.loadFailed /\ ~sent.saveFailed
    => LET newId == IF sent.route = "create" THEN UuidV4(nextId - 1) ELSE 0
           out == Abstract(ReadNotes(sent.before), sent.request,
                           GetUzbekistanTime(clock), newId)
       IN  /\ file.exists /\ file.json = "array"
           /\ ReadNotes(file) = out.abs
           /\ sent.status = out.status
           /\ sent.body = out.body

\* after a create, the PATCH of the first of two stored notes: the merged
\* note is first, the other note second
C26_Witness ==
    /\ sent.route = "update"
    /\ sent.status = 200
    /\ sent.request.id = FirstNote.id
    /\ Len(ReadNotes(sent.before)) = 2
    /\ Len(ReadNotes(file)) = 2
    /\ ReadNotes(file)[1] = sent.body.data
    /\ ReadNotes(file)[1] # FirstNote
    /\ ReadNotes(file)[1].id = FirstNote.id
    /\ ReadNotes(file)[2] = ReadNotes(sent.before)[2]

\* C27 as stated: an id that deleteNote reported deleted is in no persisted
\* collection from then on, whatever requests overlap with the delete.
C27_NeverAgain ==
    \A id \in hist.deleted : id \notin NoteIds(Persisted)

\* the step brings back a note with this id: the persisted collection did
\* not hold it and holds it afterwards
Resurrected(id) ==
    /\ id \notin NoteIds(ReadNotes(file))
    /\ id \in NoteIds(ReadNotes(file'))

\* C27 amended: an id that deleteNote reported deleted comes back into the
\* persisted collection only with the save of a create, update or delete
\* that loaded the collection, with that note in it, before the save of the
\* delete; when no such request was in flight at the save of the delete,
\* the id is in no persisted collection from then on.
C27_NoResurrection ==
    [][ /\ \A id \in hist.deleted :
              Resurrected(id) =>
                 \E r \in Slots :
                    /\ WriteStep(r)
                    /\ req[r].stale
                    /\ id \in NoteIds(req[r].loaded)
        /\ \A n \in hist'.gone : n.id \notin NoteIds(ReadNotes(file')) ]_vars

\* deleteNote has returned and the note is gone, while an update that
\* loaded the note before is still to save
C27_Witness ==
    \E id \in hist.deleted :
        /\ id \notin NoteIds(Persisted)
        /\ \E r \in Slots :
              /\ req[r].op = "update"
              /\ Pending(r)
              /\ req[r].stale
              /\ id \in NoteIds(req[r].notes)

\* C28 as stated: when a POST is answered 201, every note persisted before
\* it is persisted after it, at its place, and the persisted collection has
\* grown by exactly one note, also when the data file could not be read or
\* parsed when createNote loaded it.
C28_CreateKeepsNotes ==
    sent.route = "create" /\ sent.status = 201 =>
       LET before == ReadNotes(sent.before)
       IN  /\ Len(Persisted) = Len(before) + 1
           /\ \A i \in DOMAIN before : Persisted[i] = before[i]

\* the data file holds a note and fs.readFile fails while createNote loads:
\* createNote gets [] from readNotes, is answered 201, and the data file
\* holds the new note alone
C28_Witness ==
    /\ sent.route = "create"
    /\ sent.status = 201
    /\ sent.loadFailed
    /\ sent.loaded.notes = <<>>
    /\ ReadNotes(sent.before) = <<FirstNote>>
    /\ Persisted = <<sent.body.data>>
    /\ FirstNote.id \notin NoteIds(Persisted)

\* the step in which the load of request r returns
LoadStep(r) == AtRead(r) /\ req'[r] # req[r]

\* the requests other than r whose save is under way
Saving(r) == { w \in Slots \ {r} : req[w].pc = "wWrite" }

\* C29 as stated: a load that returns while the save of another request is
\* under way returns the collection the file held before that save or the
\* collection that is being saved.
C29_LoadSeesWholeFile ==
    [][ \A r \in Slots :
           LoadStep(r) /\ Saving(r) # {} =>
              ReadNotes(file) \in {file.notes} \cup { req[w].notes : w \in Saving(r) } ]_vars

\* a createNote has loaded the empty collection while the save of an update
\* was under way: the data file held a note before that save and the update
\* saves a note
C29_Witness ==
    \E r, w \in Slots :
        /\ req[r].op = "create"
        /\ req[r].pc = "wAccess"
        /\ req[r].loaded = <<>>
        /\ req[w].op = "update"
        /\ req[w].pc = "wWrite"
        /\ file.notes = <<FirstNote>>
        /\ Len(req[w].notes) = 1

\* the step in which an ensureDataFile (of the module load or of a request)
\* writes the empty collection
EnsureWrites ==
    \/ boot = "init" /\ boot' = "done"
    \/ \E r \in Slots :
          /\ req[r].pc \in {"rInit", "wInit"}
          /\ req'[r].pc \in {"rRead", "wWrite"}

\* C30 as stated: the write of ensureDataFile never replaces a persisted
\* non-empty collection with the empty one, whatever saves take place
\* between its fs.access and its fs.writeFile.
C30_InitKeepsNotes ==
    [][ EnsureWrites => ~(file.exists /\ ReadNotes(file) # <<>>) ]_vars

\* a created note was saved and answered, no delete has saved, and the data
\* file holds the empty collection: an ensureDataFile whose fs.access had
\* found no file wrote [] over the saved note
C30_Witness ==
    /\ file.exists
    /\ file.json = "array"
    /\ file.notes = <<>>
    /\ hist.created # {}
    /\ hist.deleted = {}

====
